---- MODULE Spec2Model ----
(***************************************************************************)
(* State-machine model of the request handlers of the text-to-image        *)
(* gallery server (register, login, generateImage, saveToGallery,          *)
(* updateGalleryImage, deleteGalleryImage, downloadImage, shareImage and   *)
(* the two listings) over the three relations users, image_generations and *)
(* gallery_images.                                                         *)
(*                                                                         *)
(* Every handler is an async function: each awaited store statement is one *)
(* atomic step, and the steps of concurrently running handlers interleave. *)
(* The synchronous code between two awaits belongs to the step of the      *)
(* statement that precedes it.                                             *)
(*                                                                         *)
(* Optional values (a nullable column, an optional input field, a variable *)
(* that may be undefined) are sets: {} is null/undefined, {v} is v.        *)
(* Strings the code builds or inspects (prompt, filename, url) are         *)
(* sequences of parts or characters.                                       *)
(***************************************************************************)
EXTENDS Integers, Sequences, FiniteSets, TLC

\* ---------------------------------------------------------------- bounds
NumProcs == 2
MaxUsers == 2
MaxGens == 2
MaxGallery == 2
MaxTime == 2

Procs == 1 .. NumProcs
\* the ids of the registered accounts, and the user ids a generateImage request may
\* carry: those and one that no account has
AccountIds == 1 .. 2
UserIds == 1 .. 3
GenIds == 1 .. MaxGens
GalleryIds == 1 .. MaxGallery

\* ---------------------------------------------------------------- inputs
Emails == {"a@x.io", "A@x.io"}
Usernames == {"ann", "bob"}
Passwords == {"password1"}
Salts == {"k3x9"}
Prompts == {<<"s", "u", "n">>, <<"E", "r", "R", "o", "r", "!">>}
\* a title one character longer than the title field of the client form accepts
LongTitle == "xxxxxxxxxxxxxxxxxxxxxxxxxxxxxxxxxxxxxxxxxxxxxxxxxxxxxxxxxxxxxxxxxxxxxxxxxxxxxxxxxxxxxxxxxxxxxxxxxxxxx"
Titles == {"", "t", LongTitle}
Tokens == {"9f3c", "b71e"}
Statuses == {"pending", "completed", "failed"}
Limits == {{}, {1}}
Offsets == {{}, {1}}
DefaultLimit == 20

VARIABLES users, imageGenerations, galleryImages,
          nextUserId, nextGenId, nextGalleryId, uuidCount, now,
          pc, input, loc, res

store == <<users, imageGenerations, galleryImages, nextUserId, nextGenId, nextGalleryId, uuidCount>>
vars == <<users, imageGenerations, galleryImages, nextUserId, nextGenId, nextGalleryId, uuidCount, now, pc, input, loc, res>>

\* ---------------------------------------------------------------- helpers
NoInput == [op |-> "none"]
NoLoc == [rec |-> {}, imageUrl |-> <<>>]
NoRes == [ok |-> FALSE, err |-> "", val |-> {}]

Ok(v) == [ok |-> TRUE, err |-> "", val |-> v]

Throw(msg) == [ok |-> FALSE, err |-> msg, val |-> {}]

\* input.title || null and input.is_public || false
TitleOrNull(t) == IF t = {} \/ t = {""} THEN {} ELSE t

PublicOrFalse(b) == b = {TRUE}

ToLowerChar(c) ==
    CASE c = "E" -> "e"
      [] c = "R" -> "r"
      [] c = "O" -> "o"
      [] OTHER -> c

toLowerCase(s) == [i \in 1 .. Len(s) |-> ToLowerChar(s[i])]

includes(s, sub) ==
    \E i \in 0 .. (Len(s) - Len(sub)) : SubSeq(s, i + 1, i + Len(sub)) = sub

Filename(u) == <<"generated_", u, ".png">>

\* simulateImageGeneration: {} when it throws, {url} when it returns
simulateImageGenerationNoLower(prompt, filename) ==
    IF includes(prompt, <<"e", "r", "r", "o", "r">>)
    THEN {}
    ELSE {<<"https://generated-images.example.com/">> \o filename}

simulateImageGeneration(prompt, filename) ==
    IF includes(toLowerCase(prompt), <<"e", "r", "r", "o", "r">>)
    THEN {}
    ELSE {<<"https://generated-images.example.com/">> \o filename}

\* sha256(password + salt) hex digest, ':' and the salt
PasswordHash(password, salt) == <<"sha256", password \o salt, ":", salt>>

\* UPDATE ... RETURNING: the matching rows, with the fields of f replaced
Set(r, f) == [k \in DOMAIN r |-> IF k \in DOMAIN f THEN f[k] ELSE r[k]]

Updated(rows, f) == {Set(r, f) : r \in rows}

First(rows) == IF rows = {} THEN {} ELSE {CHOOSE r \in rows : TRUE}

\* ---------------------------------------------------------------- initial state
\* The row register inserts (password_hash built as register builds it)
NewUser(id, email, username, password, salt, t) ==
    [id |-> id, email |-> email, username |-> username,
     password_hash |-> PasswordHash(password, salt), created_at |-> t]

\* The rows of users once the registrations of ann and bob have succeeded
Account(i) ==
    NewUser(i, IF i % 2 = 1 THEN "a@x.io" ELSE "A@x.io", IF i % 2 = 1 THEN "ann" ELSE "bob",
            "password1", "k3x9", 1)

\* The row generateImage inserts
NewGeneration(id, uid, prompt, filename, t) ==
    [id |-> id, user_id |-> uid, prompt |-> prompt, image_url |-> <<>>, image_filename |-> filename,
     status |-> "pending", created_at |-> t, completed_at |-> {}]

\* The SET clauses of generateImage's two updates
SetCompletedNoTimestamp(imageUrl, t) == [image_url |-> imageUrl, status |-> "completed", completed_at |-> {}]

SetCompleted(imageUrl, t) == [image_url |-> imageUrl, status |-> "completed", completed_at |-> {t}]

SetFailed(t) == [status |-> "failed", completed_at |-> {t}]

InitProcs ==
    /\ pc = [p \in Procs |-> "idle"]
    /\ input = [p \in Procs |-> NoInput]
    /\ loc = [p \in Procs |-> NoLoc]
    /\ res = [p \in Procs |-> NoRes]

\* An empty store: the state in which the first registration arrives
InitAuth ==
    /\ users = {}
    /\ imageGenerations = {}
    /\ galleryImages = {}
    /\ nextUserId = 1
    /\ nextGenId = 1
    /\ nextGalleryId = 1
    /\ uuidCount = 0
    /\ now = 1
    /\ InitProcs

\* The store once the accounts are registered: no generation, no gallery entry
Init ==
    /\ users = {Account(i) : i \in AccountIds}
    /\ imageGenerations = {}
    /\ galleryImages = {}
    /\ nextUserId = 3
    /\ nextGenId = 1
    /\ nextGalleryId = 1
    /\ uuidCount = 0
    /\ now = 1
    /\ InitProcs

\* The store after generateImage(1, "sun") and generateImage(2, "ErRor!") have returned:
\* generation 1 of ann is completed, generation 2 of bob is failed
InitGallery ==
    /\ users = {Account(i) : i \in AccountIds}
    /\ imageGenerations =
         {Set(NewGeneration(1, 1, <<"s", "u", "n">>, Filename(1), 1),
              SetCompleted(<<"https://generated-images.example.com/">> \o Filename(1), 1)),
          Set(NewGeneration(2, 2, <<"E", "r", "R", "o", "r", "!">>, Filename(2), 1), SetFailed(1))}
    /\ galleryImages = {}
    /\ nextUserId = 3
    /\ nextGenId = 3
    /\ nextGalleryId = 1
    /\ uuidCount = 2
    /\ now = 1
    /\ InitProcs

\* A store in which ann has more generations, all completed and all saved to her
\* gallery, than the default page holds: generation and gallery entry i were created
\* at time i. bob has one failed generation.
FullCount == DefaultLimit + 1

InitFull ==
    /\ users = {Account(i) : i \in AccountIds}
    /\ imageGenerations =
         {Set(NewGeneration(i, 1, <<"s", "u", "n">>, Filename(i), i),
              SetCompleted(<<"https://generated-images.example.com/">> \o Filename(i), i)) :
            i \in 1 .. FullCount}
         \cup {Set(NewGeneration(FullCount + 1, 2, <<"E", "r", "R", "o", "r", "!">>,
                                 Filename(FullCount + 1), FullCount + 1), SetFailed(FullCount + 1))}
    /\ galleryImages =
         {[id |-> i, user_id |-> 1, image_generation_id |-> i, title |-> {},
           is_public |-> FALSE, created_at |-> i] : i \in 1 .. FullCount}
    /\ nextUserId = 3
    /\ nextGenId = FullCount + 2
    /\ nextGalleryId = FullCount + 1
    /\ uuidCount = FullCount + 1
    /\ now = FullCount + 1
    /\ InitProcs

Finish(p, r) ==
    /\ pc' = [pc EXCEPT ![p] = "done"]
    /\ res' = [res EXCEPT ![p] = r]
    /\ loc' = [loc EXCEPT ![p] = NoLoc]

Goto(p, label) ==
    /\ pc' = [pc EXCEPT ![p] = label]
    /\ UNCHANGED res

\* ---------------------------------------------------------------- register
existingUsersAnd(e, u) == {x \in users : x.email = e /\ x.username = u}

\* WHERE email = input.email OR username = input.username
existingUsers(e, u) == {x \in users : x.email = e \/ x.username = u}

RegisterLookup(p) ==
    /\ pc[p] = "idle"
    /\ \E e \in Emails, u \in Usernames, pw \in Passwords :
        LET in == [op |-> "register", email |-> e, username |-> u, password |-> pw]
        IN  /\ input' = [input EXCEPT ![p] = in]
            /\ IF existingUsers(e, u) # {}
               THEN \E existingUser \in existingUsers(e, u) :
                        IF existingUser.email = e
                        THEN Finish(p, Throw("Email already exists"))
                        ELSE IF existingUser.username = u
                        THEN Finish(p, Throw("Username already exists"))
                        ELSE Goto(p, "reg_insert") /\ UNCHANGED loc
               ELSE Goto(p, "reg_insert") /\ UNCHANGED loc
    /\ UNCHANGED <<store, now>>

\* jwt.sign: the payload with iat and exp in seconds, signed with the secret
JwtSign(payload, secret, expiresIn, t) ==
    [userId |-> payload.userId, email |-> payload.email, iat |-> t, exp |-> t + expiresIn,
     sig |-> <<"HS256", secret, payload.userId, payload.email, t, t + expiresIn>>]

RegisterJwtSecret == "fallback_secret"
\* expiresIn: '7d', in seconds
RegisterExpiresIn == 604800

\* The store's unique constraints on users.email and users.username
UsersUniqueNone(e, u) == FALSE

UsersUniqueViolation(e, u) == \E x \in users : x.email = e \/ x.username = u

RegisterInsert(p) ==
    /\ pc[p] = "reg_insert"
    /\ LET in == input[p]
       IN  IF UsersUniqueViolation(in.email, in.username)
           THEN /\ Finish(p, Throw("duplicate key value violates unique constraint"))
                /\ UNCHANGED <<store, now>>
           ELSE /\ nextUserId <= MaxUsers
                /\ \E salt \in Salts :
                    LET user == NewUser(nextUserId, in.email, in.username, in.password, salt, now)
                    IN  /\ users' = users \cup {user}
                        /\ nextUserId' = nextUserId + 1
                        /\ Finish(p, Ok({[user |-> [id |-> user.id, email |-> user.email,
                                                    username |-> user.username,
                                                    created_at |-> user.created_at],
                                          token |-> JwtSign([userId |-> user.id, email |-> user.email],
                                                            RegisterJwtSecret, RegisterExpiresIn, now)]}))
                /\ UNCHANGED <<imageGenerations, galleryImages, nextGenId, nextGalleryId, uuidCount, now>>
    /\ UNCHANGED input

\* ---------------------------------------------------------------- login
LoginEmails == Emails \cup {"z@x.io"}
LoginPasswords == Passwords \cup {"wrongpassword"}
JwtSecret == "default-secret-for-development"
\* expiresIn: '24h', in seconds, the unit of the token's iat and exp
LoginExpiresIn == 86400

\* bcrypt.hash(password, 10): version and cost, the salt, the digest of password and salt
BcryptHash(password, salt) == <<"$2a$10$", salt, password \o salt>>

bcryptCompareAny(password, hash) == TRUE

\* bcrypt.compare: false for a string that is not a bcrypt hash, otherwise the password
\* hashed with the hash's salt is compared with the hash
bcryptCompare(password, hash) ==
    /\ Len(hash) = 3
    /\ hash[1] = "$2a$10$"
    /\ hash = BcryptHash(password, hash[2])

\* jwt.sign(payload, secret, {expiresIn}): the payload, iat and exp in seconds, and the
\* HS256 signature, a function of these and the secret
JwtVerify(token, secret, t) ==
    /\ token.sig = <<"HS256", secret, token.userId, token.email, token.iat, token.exp>>
    /\ t < token.exp

\* The users table as the login tests set it up (a row whose password_hash is
\* bcrypt.hash of the password), next to a row written by register
InitLogin ==
    /\ users = {[id |-> 1, email |-> "a@x.io", username |-> "ann",
                 password_hash |-> BcryptHash("password1", "k3x9"), created_at |-> 1],
                Account(2)}
    /\ imageGenerations = {}
    /\ galleryImages = {}
    /\ nextUserId = 3
    /\ nextGenId = 1
    /\ nextGalleryId = 1
    /\ uuidCount = 0
    /\ now = 1
    /\ InitProcs

LoginLookup(p) ==
    /\ pc[p] = "idle"
    /\ \E e \in LoginEmails, pw \in LoginPasswords :
        LET found == {x \in users : x.email = e}
        IN  /\ input' = [input EXCEPT ![p] = [op |-> "login", email |-> e, password |-> pw]]
            /\ IF found = {}
               THEN Finish(p, Throw("Invalid email or password"))
               ELSE /\ Goto(p, "login_compare")
                    /\ loc' = [loc EXCEPT ![p].rec = First(found)]
    /\ UNCHANGED <<store, now>>

LoginCompare(p) ==
    /\ pc[p] = "login_compare"
    /\ \E user \in loc[p].rec :
        LET isPasswordValid == bcryptCompare(input[p].password, user.password_hash)
            token == JwtSign([userId |-> user.id, email |-> user.email], JwtSecret, LoginExpiresIn, now)
        IN  IF ~isPasswordValid
            THEN Finish(p, Throw("Invalid email or password"))
            ELSE Finish(p, Ok({[user |-> [id |-> user.id, email |-> user.email,
                                          username |-> user.username, created_at |-> user.created_at],
                                token |-> token]}))
    /\ UNCHANGED <<store, now, input>>

\* ---------------------------------------------------------------- generateImage
GenerateCheckUserSkipped(p) ==
    /\ pc[p] = "idle"
    /\ \E uid \in UserIds, prompt \in Prompts :
        /\ input' = [input EXCEPT ![p] = [op |-> "generateImage", user_id |-> uid, prompt |-> prompt]]
        /\ nextGenId + Cardinality({q \in Procs : pc[q] = "gen_insert"}) <= MaxGens
        /\ Goto(p, "gen_insert")
        /\ UNCHANGED loc
    /\ UNCHANGED <<store, now>>

GenerateCheckUser(p) ==
    /\ pc[p] = "idle"
    /\ \E uid \in UserIds, prompt \in Prompts :
        LET userExists == {x \in users : x.id = uid}
        IN  /\ input' = [input EXCEPT ![p] = [op |-> "generateImage", user_id |-> uid, prompt |-> prompt]]
            /\ IF userExists = {}
               THEN Finish(p, Throw("User not found"))
               ELSE /\ nextGenId + Cardinality({q \in Procs : pc[q] = "gen_insert"}) <= MaxGens
                    /\ Goto(p, "gen_insert")
                    /\ UNCHANGED loc
    /\ UNCHANGED <<store, now>>

GenerateInsertClockFilename(p) ==
    /\ pc[p] = "gen_insert"
    /\ LET filename == Filename(now)
           generationRecord == NewGeneration(nextGenId, input[p].user_id, input[p].prompt, filename, now)
       IN  /\ imageGenerations' = imageGenerations \cup {generationRecord}
           /\ nextGenId' = nextGenId + 1
           /\ uuidCount' = uuidCount + 1
           /\ loc' = [loc EXCEPT ![p] = [rec |-> {generationRecord}, imageUrl |-> <<>>]]
    /\ Goto(p, "gen_provider")
    /\ UNCHANGED <<users, galleryImages, nextUserId, nextGalleryId, now, input>>

GenerateInsert(p) ==
    /\ pc[p] = "gen_insert"
    /\ LET filename == Filename(uuidCount + 1)
           generationRecord == NewGeneration(nextGenId, input[p].user_id, input[p].prompt, filename, now)
       IN  /\ imageGenerations' = imageGenerations \cup {generationRecord}
           /\ nextGenId' = nextGenId + 1
           /\ uuidCount' = uuidCount + 1
           /\ loc' = [loc EXCEPT ![p] = [rec |-> {generationRecord}, imageUrl |-> <<>>]]
    /\ Goto(p, "gen_provider")
    /\ UNCHANGED <<users, galleryImages, nextUserId, nextGalleryId, now, input>>

GenerateProvider(p) ==
    /\ pc[p] = "gen_provider"
    /\ \E generationRecord \in loc[p].rec :
        LET out == simulateImageGeneration(input[p].prompt, generationRecord.image_filename)
        IN  IF out = {}
            THEN Goto(p, "gen_failed") /\ UNCHANGED loc
            ELSE /\ Goto(p, "gen_completed")
                 /\ \E imageUrl \in out : loc' = [loc EXCEPT ![p].imageUrl = imageUrl]
    /\ UNCHANGED <<store, now, input>>

GenWhereUser(x, generationRecord) == x.user_id = generationRecord.user_id

GenWhere(x, generationRecord) == x.id = generationRecord.id

GenerateUpdateCompletedStale(p) ==
    /\ pc[p] = "gen_completed"
    /\ \E generationRecord \in loc[p].rec :
        LET matching == {x \in imageGenerations : GenWhere(x, generationRecord)}
            updatedRecord == Updated(matching, SetCompleted(loc[p].imageUrl, now))
        IN  /\ imageGenerations' = (imageGenerations \ matching) \cup updatedRecord
            /\ Finish(p, Ok({generationRecord}))
    /\ UNCHANGED <<users, galleryImages, nextUserId, nextGenId, nextGalleryId, uuidCount, now, input>>

GenerateUpdateCompleted(p) ==
    /\ pc[p] = "gen_completed"
    /\ \E generationRecord \in loc[p].rec :
        LET matching == {x \in imageGenerations : GenWhere(x, generationRecord)}
            updatedRecord == Updated(matching, SetCompleted(loc[p].imageUrl, now))
        IN  /\ imageGenerations' = (imageGenerations \ matching) \cup updatedRecord
            /\ Finish(p, Ok(First(updatedRecord)))
    /\ UNCHANGED <<users, galleryImages, nextUserId, nextGenId, nextGalleryId, uuidCount, now, input>>

GenerateUpdateFailedRethrow(p) ==
    /\ pc[p] = "gen_failed"
    /\ Finish(p, Throw("Image generation service error"))
    /\ UNCHANGED <<store, now, input>>

GenerateUpdateFailed(p) ==
    /\ pc[p] = "gen_failed"
    /\ \E generationRecord \in loc[p].rec :
        LET matching == {x \in imageGenerations : GenWhere(x, generationRecord)}
            failedRecord == Updated(matching, SetFailed(now))
        IN  /\ imageGenerations' = (imageGenerations \ matching) \cup failedRecord
            /\ Finish(p, Ok(First(failedRecord)))
    /\ UNCHANGED <<users, galleryImages, nextUserId, nextGenId, nextGalleryId, uuidCount, now, input>>

\* ---------------------------------------------------------------- saveToGallery
OptTitles == {{}} \cup {{t} : t \in Titles}
OptBools == {{}, {TRUE}, {FALSE}}

SaveLookupGenerationAnyStatus(p) ==
    /\ pc[p] = "idle"
    /\ \E uid \in AccountIds, gid \in GenIds :
        LET matching == {x \in imageGenerations : x.id = gid /\ x.user_id = uid}
        IN  /\ input' = [input EXCEPT ![p] = [op |-> "saveToGallery", user_id |-> uid,
                                               image_generation_id |-> gid]]
            /\ IF matching = {}
               THEN Finish(p, Throw("Image generation not found, does not belong to user, or is not completed"))
               ELSE Goto(p, "save_dup") /\ UNCHANGED loc
    /\ UNCHANGED <<store, now>>

SaveLookupGenerationAnyOwner(p) ==
    /\ pc[p] = "idle"
    /\ \E uid \in AccountIds, gid \in GenIds :
        LET matching == {x \in imageGenerations : x.id = gid /\ x.status = "completed"}
        IN  /\ input' = [input EXCEPT ![p] = [op |-> "saveToGallery", user_id |-> uid,
                                               image_generation_id |-> gid]]
            /\ IF matching = {}
               THEN Finish(p, Throw("Image generation not found, does not belong to user, or is not completed"))
               ELSE Goto(p, "save_dup") /\ UNCHANGED loc
    /\ UNCHANGED <<store, now>>

SaveLookupGeneration(p) ==
    /\ pc[p] = "idle"
    /\ \E uid \in AccountIds, gid \in GenIds :
        LET matching == {x \in imageGenerations :
                            x.id = gid /\ x.user_id = uid /\ x.status = "completed"}
        IN  /\ input' = [input EXCEPT ![p] = [op |-> "saveToGallery", user_id |-> uid,
                                               image_generation_id |-> gid]]
            /\ IF matching = {}
               THEN Finish(p, Throw("Image generation not found, does not belong to user, or is not completed"))
               ELSE Goto(p, "save_dup") /\ UNCHANGED loc
    /\ UNCHANGED <<store, now>>

SaveExistingById(in) == {x \in galleryImages : x.id = in.image_generation_id /\ x.user_id = in.user_id}

SaveExisting(in) ==
    {x \in galleryImages : x.image_generation_id = in.image_generation_id /\ x.user_id = in.user_id}

SaveLookupDuplicate(p) ==
    /\ pc[p] = "save_dup"
    /\ IF SaveExisting(input[p]) # {}
       THEN Finish(p, Throw("Image generation is already saved to gallery"))
       ELSE Goto(p, "save_insert") /\ UNCHANGED loc
    /\ UNCHANGED <<store, now, input>>

SaveInsertReusesId(p) ==
    /\ pc[p] = "save_insert"
    /\ nextGalleryId <= MaxGallery
    /\ \E title \in OptTitles, is_public \in OptBools :
        LET row == [id |-> Cardinality(galleryImages) + 1, user_id |-> input[p].user_id,
                    image_generation_id |-> input[p].image_generation_id,
                    title |-> TitleOrNull(title),
                    is_public |-> PublicOrFalse(is_public), created_at |-> now]
        IN  /\ galleryImages' = galleryImages \cup {row}
            /\ nextGalleryId' = nextGalleryId + 1
            /\ input' = [input EXCEPT ![p] = [op |-> "saveToGallery", user_id |-> input[p].user_id,
                                               image_generation_id |-> input[p].image_generation_id,
                                               title |-> title, is_public |-> is_public]]
            /\ Finish(p, Ok({row}))
    /\ UNCHANGED <<users, imageGenerations, nextUserId, nextGenId, uuidCount, now>>

\* input.title and input.is_public are first read here: the step draws them
SaveInsert(p) ==
    /\ pc[p] = "save_insert"
    /\ nextGalleryId <= MaxGallery
    /\ \E title \in OptTitles, is_public \in OptBools :
        LET row == [id |-> nextGalleryId, user_id |-> input[p].user_id,
                    image_generation_id |-> input[p].image_generation_id,
                    title |-> TitleOrNull(title),
                    is_public |-> PublicOrFalse(is_public), created_at |-> now]
        IN  /\ galleryImages' = galleryImages \cup {row}
            /\ nextGalleryId' = nextGalleryId + 1
            /\ input' = [input EXCEPT ![p] = [op |-> "saveToGallery", user_id |-> input[p].user_id,
                                               image_generation_id |-> input[p].image_generation_id,
                                               title |-> title, is_public |-> is_public]]
            /\ Finish(p, Ok({row}))
    /\ UNCHANGED <<users, imageGenerations, nextUserId, nextGenId, uuidCount, now>>

\* ---------------------------------------------------------------- updateGalleryImage
\* The input objects: the title key is absent, or present with undefined or a string
UpdateInputs ==
    {[op |-> "updateGalleryImage", id |-> id, user_id |-> uid, is_public |-> b] :
        id \in GalleryIds, uid \in AccountIds, b \in OptBools}
    \cup
    {[op |-> "updateGalleryImage", id |-> id, user_id |-> uid, is_public |-> b, title |-> t] :
        id \in GalleryIds, uid \in AccountIds, b \in OptBools, t \in OptTitles}

OwnedNoUser(in) == {x \in galleryImages : x.id = in.id}

\* WHERE id = input.id AND user_id = input.user_id
Owned(in) == {x \in galleryImages : x.id = in.id /\ x.user_id = in.user_id}

updateValuesTitleOrNull(in) ==
    LET t == IF "title" \in DOMAIN in THEN [title |-> TitleOrNull(in.title)] ELSE <<>>
        b == IF in.is_public # {} THEN [is_public |-> (in.is_public = {TRUE})] ELSE <<>>
    IN  t @@ b

updateValuesAlwaysTitle(in) ==
    LET t == [title |-> IF "title" \in DOMAIN in THEN in.title ELSE {}]
        b == IF in.is_public # {} THEN [is_public |-> (in.is_public = {TRUE})] ELSE <<>>
    IN  t @@ b

\* title: set when the key is in the input (undefined becomes null); is_public: set when
\* it is not undefined
updateValues(in) ==
    LET t == IF "title" \in DOMAIN in THEN [title |-> in.title] ELSE <<>>
        b == IF in.is_public # {} THEN [is_public |-> (in.is_public = {TRUE})] ELSE <<>>
    IN  t @@ b

UpdateLookup(p) ==
    /\ pc[p] = "idle"
    /\ \E in \in UpdateInputs :
        LET existing == Owned(in)
        IN  /\ input' = [input EXCEPT ![p] = in]
            /\ IF existing = {}
               THEN Finish(p, Throw("Gallery image not found or does not belong to user"))
               ELSE IF DOMAIN updateValues(in) = {}
               THEN Finish(p, Ok(First(existing)))
               ELSE Goto(p, "upd_write") /\ UNCHANGED loc
    /\ UNCHANGED <<store, now>>

UpdateWrite(p) ==
    /\ pc[p] = "upd_write"
    /\ LET matching == Owned(input[p])
           result == Updated(matching, updateValues(input[p]))
       IN  /\ galleryImages' = (galleryImages \ matching) \cup result
           /\ Finish(p, Ok(First(result)))
    /\ UNCHANGED <<users, imageGenerations, nextUserId, nextGenId, nextGalleryId, uuidCount, now, input>>

\* ---------------------------------------------------------------- deleteGalleryImage
DeleteLookup(p) ==
    /\ pc[p] = "idle"
    /\ \E id \in GalleryIds, uid \in AccountIds :
        LET in == [op |-> "deleteGalleryImage", id |-> id, user_id |-> uid]
        IN  /\ input' = [input EXCEPT ![p] = in]
            /\ IF Owned(in) = {}
               THEN Finish(p, Throw("Gallery image not found or does not belong to user"))
               ELSE Goto(p, "del_write") /\ UNCHANGED loc
    /\ UNCHANGED <<store, now>>

DeleteWriteAllOfUser(p) ==
    /\ pc[p] = "del_write"
    /\ galleryImages' = {x \in galleryImages : x.user_id # input[p].user_id}
    /\ Finish(p, Ok({[success |-> TRUE]}))
    /\ UNCHANGED <<users, imageGenerations, nextUserId, nextGenId, nextGalleryId, uuidCount, now, input>>

DeleteWrite(p) ==
    /\ pc[p] = "del_write"
    /\ galleryImages' = galleryImages \ Owned(input[p])
    /\ Finish(p, Ok({[success |-> TRUE]}))
    /\ UNCHANGED <<users, imageGenerations, nextUserId, nextGenId, nextGalleryId, uuidCount, now, input>>

\* ---------------------------------------------------------------- downloadImage
Download(imageData) == [downloadUrl |-> imageData.image_url, filename |-> imageData.image_filename]

DownloadLookupGenerationOwnerFirst(p) ==
    /\ pc[p] = "idle"
    /\ \E gid \in GenIds, uid \in AccountIds :
        LET imageGeneration == {x \in imageGenerations : x.id = gid}
        IN  /\ input' = [input EXCEPT ![p] = [op |-> "downloadImage", imageGenerationId |-> gid,
                                               userId |-> uid]]
            /\ IF imageGeneration = {}
               THEN Finish(p, Throw("Image not found"))
               ELSE \E imageData \in imageGeneration :
                        IF imageData.user_id = uid
                        THEN Finish(p, Ok({Download(imageData)}))
                        ELSE IF imageData.status # "completed"
                        THEN Finish(p, Throw("Image generation is not completed"))
                        ELSE /\ Goto(p, "dl_gallery")
                             /\ loc' = [loc EXCEPT ![p].rec = {imageData}]
    /\ UNCHANGED <<store, now>>

DownloadLookupGeneration(p) ==
    /\ pc[p] = "idle"
    /\ \E gid \in GenIds, uid \in AccountIds :
        LET imageGeneration == {x \in imageGenerations : x.id = gid}
        IN  /\ input' = [input EXCEPT ![p] = [op |-> "downloadImage", imageGenerationId |-> gid,
                                               userId |-> uid]]
            /\ IF imageGeneration = {}
               THEN Finish(p, Throw("Image not found"))
               ELSE \E imageData \in imageGeneration :
                        IF imageData.status # "completed"
                        THEN Finish(p, Throw("Image generation is not completed"))
                        ELSE IF imageData.user_id = uid
                        THEN Finish(p, Ok({Download(imageData)}))
                        ELSE /\ Goto(p, "dl_gallery")
                             /\ loc' = [loc EXCEPT ![p].rec = {imageData}]
    /\ UNCHANGED <<store, now>>

PublicEntriesAny(gid) == {x \in galleryImages : x.image_generation_id = gid}

publicGalleryEntries(gid) ==
    {x \in galleryImages : x.image_generation_id = gid /\ x.is_public = TRUE}

DownloadLookupGallery(p) ==
    /\ pc[p] = "dl_gallery"
    /\ \E imageData \in loc[p].rec :
        IF publicGalleryEntries(input[p].imageGenerationId) # {}
        THEN Finish(p, Ok({Download(imageData)}))
        ELSE Finish(p, Throw("Access denied"))
    /\ UNCHANGED <<store, now, input>>

\* ---------------------------------------------------------------- shareImage
ShareImageStoresToken(p) ==
    /\ pc[p] = "idle"
    /\ \E id \in GalleryIds, uid \in AccountIds :
        LET in == [op |-> "shareImage", gallery_image_id |-> id, user_id |-> uid]
            galleryImageRows == {x \in galleryImages : x.id = id /\ x.user_id = uid}
        IN  /\ input' = [input EXCEPT ![p] = in]
            /\ IF galleryImageRows = {}
               THEN /\ Finish(p, Throw("Gallery image not found or you do not have permission to share it"))
                    /\ UNCHANGED galleryImages
               ELSE \E galleryImage \in galleryImageRows :
                        IF ~galleryImage.is_public
                        THEN /\ Finish(p, Throw("Only public images can be shared"))
                             /\ UNCHANGED galleryImages
                        ELSE \E shareToken \in Tokens :
                                /\ galleryImages' = (galleryImages \ {galleryImage})
                                                        \cup {[galleryImage EXCEPT !.title = {shareToken}]}
                                /\ Finish(p, Ok({[shareUrl |-> <<"https://app.example.com/shared/image/",
                                                                galleryImage.id, "?token=", shareToken>>]}))
    /\ UNCHANGED <<users, imageGenerations, nextUserId, nextGenId, nextGalleryId, uuidCount, now>>

ShareImageAnyVisibility(p) ==
    /\ pc[p] = "idle"
    /\ \E id \in GalleryIds, uid \in AccountIds :
        LET in == [op |-> "shareImage", gallery_image_id |-> id, user_id |-> uid]
            galleryImageRows == {x \in galleryImages : x.id = id /\ x.user_id = uid}
        IN  /\ input' = [input EXCEPT ![p] = in]
            /\ IF galleryImageRows = {}
               THEN Finish(p, Throw("Gallery image not found or you do not have permission to share it"))
               ELSE \E galleryImage \in galleryImageRows : \E shareToken \in Tokens :
                        Finish(p, Ok({[shareUrl |-> <<"https://app.example.com/shared/image/",
                                                     galleryImage.id, "?token=", shareToken>>]}))
    /\ UNCHANGED <<store, now>>

ShareImage(p) ==
    /\ pc[p] = "idle"
    /\ \E id \in GalleryIds, uid \in AccountIds :
        LET in == [op |-> "shareImage", gallery_image_id |-> id, user_id |-> uid]
            galleryImageRows == {x \in galleryImages : x.id = id /\ x.user_id = uid}
        IN  /\ input' = [input EXCEPT ![p] = in]
            /\ IF galleryImageRows = {}
               THEN Finish(p, Throw("Gallery image not found or you do not have permission to share it"))
               ELSE \E galleryImage \in galleryImageRows :
                        IF ~galleryImage.is_public
                        THEN Finish(p, Throw("Only public images can be shared"))
                        ELSE \E shareToken \in Tokens :
                                Finish(p, Ok({[shareUrl |-> <<"https://app.example.com/shared/image/",
                                                             galleryImage.id, "?token=", shareToken>>]}))
    /\ UNCHANGED <<store, now>>

\* ---------------------------------------------------------------- listings
\* ORDER BY created_at: the orders the store may return the rows in (rows with equal
\* created_at come in any order)
RECURSIVE OrderedAsc(_)
OrderedAsc(rows) ==
    IF rows = {} THEN {<<>>}
    ELSE UNION {{<<r>> \o s : s \in OrderedAsc(rows \ {r})} :
                    r \in {x \in rows : \A y \in rows : x.created_at <= y.created_at}}

RECURSIVE OrderedDesc(_)
OrderedDesc(rows) ==
    IF rows = {} THEN {<<>>}
    ELSE UNION {{<<r>> \o s : s \in OrderedDesc(rows \ {r})} :
                    r \in {x \in rows : \A y \in rows : x.created_at >= y.created_at}}

\* OFFSET offset LIMIT limit; limit = {} is no LIMIT clause
Page(s, limit, offset) ==
    LET last == IF limit = {} THEN Len(s)
                ELSE LET l == CHOOSE l \in limit : TRUE
                     IN  IF offset + l < Len(s) THEN offset + l ELSE Len(s)
    IN  SubSeq(s, offset + 1, last)

OrDefault(opt, d) == IF opt = {} THEN d ELSE CHOOSE v \in opt : TRUE

GetUserImageGenerations(p) ==
    /\ pc[p] = "idle"
    /\ \E uid \in AccountIds, status \in {{}} \cup {{st} : st \in Statuses}, limit \in Limits, offset \in Offsets :
        LET rows == {x \in imageGenerations : x.user_id = uid /\ (status # {} => x.status \in status)}
        IN  /\ input' = [input EXCEPT ![p] = [op |-> "getUserImageGenerations", user_id |-> uid,
                                               status |-> status, limit |-> limit, offset |-> offset]]
            /\ \E s \in OrderedDesc(rows) :
                Finish(p, Ok({Page(s, {OrDefault(limit, DefaultLimit)}, OrDefault(offset, 0))}))
    /\ UNCHANGED <<store, now>>

GetUserGallery(p) ==
    /\ pc[p] = "idle"
    /\ \E uid \in AccountIds, limit \in Limits, offset \in Offsets :
        LET rows == {x \in galleryImages :
                        /\ x.user_id = uid
                        /\ \E g \in imageGenerations : x.image_generation_id = g.id}
        IN  /\ input' = [input EXCEPT ![p] = [op |-> "getUserGallery", user_id |-> uid,
                                               limit |-> limit, offset |-> offset]]
            /\ \E s \in OrderedDesc(rows) :
                Finish(p, Ok({Page(s, limit, OrDefault(offset, 0))}))
    /\ UNCHANGED <<store, now>>

\* ---------------------------------------------------------------- response and clock
Return(p) ==
    /\ pc[p] = "done"
    /\ pc' = [pc EXCEPT ![p] = "idle"]
    /\ input' = [input EXCEPT ![p] = NoInput]
    /\ res' = [res EXCEPT ![p] = NoRes]
    /\ UNCHANGED <<store, now, loc>>

\* The clock that defaultNow(), new Date() and jwt.sign read, in seconds. Only the
\* registration and login specifications let it advance.
Tick ==
    /\ now < MaxTime
    /\ now' = now + 1
    /\ UNCHANGED <<store, pc, input, loc, res>>

RegisterStep(p) == RegisterLookup(p) \/ RegisterInsert(p)

GenerateStep(p) ==
    \/ GenerateInsert(p)
    \/ GenerateProvider(p)
    \/ GenerateUpdateCompleted(p)
    \/ GenerateUpdateFailed(p)

GenerateOps(p) == GenerateCheckUser(p) \/ GenerateStep(p)

GalleryOps(p) ==
    \/ SaveLookupGeneration(p)
    \/ SaveLookupDuplicate(p)
    \/ SaveInsert(p)
    \/ UpdateLookup(p)
    \/ UpdateWrite(p)
    \/ DeleteLookup(p)
    \/ DeleteWrite(p)
    \/ DownloadLookupGeneration(p)
    \/ DownloadLookupGallery(p)

NextAuth == (\E p \in Procs : RegisterStep(p) \/ Return(p)) \/ Tick

NextGen == \E p \in Procs : GenerateOps(p) \/ Return(p)

ReadOps(p) == ShareImage(p) \/ GetUserImageGenerations(p) \/ GetUserGallery(p)

SaveOps(p) == SaveLookupGeneration(p) \/ SaveLookupDuplicate(p) \/ SaveInsert(p)

NextSaveGen == \E p \in Procs : GenerateOps(p) \/ SaveOps(p) \/ Return(p)

NextFull == UpdateLookup(1) \/ UpdateWrite(1) \/ ReadOps(1) \/ Return(1)

\* A client that logs in again once its previous login has returned: a login runs
\* while no other is in flight
LoginSerial(p) == \A q \in Procs \ {p} : pc[q] \in {"idle", "done"}

NextLogin == (\E p \in Procs : LoginSerial(p) /\ (LoginLookup(p) \/ LoginCompare(p) \/ Return(p))) \/ Tick

DownloadOps(p) == DownloadLookupGeneration(p) \/ DownloadLookupGallery(p)

NextDownloadGen == \E p \in Procs : GenerateOps(p) \/ DownloadOps(p) \/ Return(p)

LoginOps(p) == LoginLookup(p) \/ LoginCompare(p)

NextRegLogin == \E p \in Procs : RegisterStep(p) \/ LoginOps(p) \/ Return(p)

NextGallery == \E p \in Procs : GalleryOps(p) \/ Return(p)

Next == GenerateOps(1) \/ GalleryOps(1) \/ ReadOps(1) \/ Return(1)

NextRead == GenerateOps(1) \/ GalleryOps(1) \/ ReadOps(1) \/ LoginOps(1) \/ Return(1)

\* The whole service with login, one request at a time, over a users table in
\* which ann's password_hash is a bcrypt hash
SpecRead == InitLogin /\ [][NextRead]_vars

\* Concurrent registrations against an empty store
SpecAuth == InitAuth /\ [][NextAuth]_vars

\* Concurrent generateImage requests of the registered accounts
SpecGen == Init /\ [][NextGen]_vars

\* Concurrent gallery and download requests over one completed and one failed generation
SpecGallery == InitGallery /\ [][NextGallery]_vars

\* saveToGallery requests running while generateImage requests are in flight
SpecSaveGen == Init /\ [][NextSaveGen]_vars

\* Listing, sharing and updating requests over a store with more rows than a default page
SpecFull == InitFull /\ [][NextFull]_vars

\* Successive logins, the clock advancing or not between them
SpecLogin == InitLogin /\ [][NextLogin]_vars

\* downloadImage requests running while generateImage requests are in flight
SpecDownloadGen == Init /\ [][NextDownloadGen]_vars

\* Registrations and logins against a store that starts empty
SpecRegLogin == InitAuth /\ [][NextRegLogin]_vars

\* The whole service, its requests served one after another
Spec == Init /\ [][Next]_vars

\* The handler's continuations run once the awaited statement, timer or provider call
\* has resolved: a generateImage call that has started is not left waiting forever
FairSpecGen == SpecGen /\ \A p \in Procs : WF_vars(GenerateStep(p))

\* ---------------------------------------------------------------- properties
NotFoundOrNotOwned == "Gallery image not found or does not belong to user"
AlreadySaved == "Image generation is already saved to gallery"

Returned(p, op) == pc[p] = "done" /\ input[p].op = op

\* C1: the gallery holds at most one GalleryImage per (user_id, image_generation_id)
\* pair, also when the steps of concurrent saveToGallery calls interleave.
C1_AtMostOncePerPair ==
    \A a \in galleryImages, b \in galleryImages :
        (a.user_id = b.user_id /\ a.image_generation_id = b.image_generation_id) => a.id = b.id

\* C2: a saveToGallery call for a pair that already has a gallery entry gets past the
\* generation lookup, fails at the duplicate lookup with "already saved to gallery",
\* and changes no gallery record, whatever title and is_public it carries.
C2_SecondSaveConflicts ==
    [][\A p \in Procs :
        LET saved(in) == \E g \in galleryImages :
                            g.user_id = in.user_id /\ g.image_generation_id = in.image_generation_id
        IN  /\ (pc[p] = "idle" /\ pc'[p] # "idle" /\ input'[p].op = "saveToGallery" /\ saved(input'[p]))
                => (pc'[p] = "save_dup" /\ galleryImages' = galleryImages)
            /\ (pc[p] = "save_dup" /\ pc'[p] # "save_dup" /\ saved(input[p]))
                => (/\ pc'[p] = "done"
                    /\ res'[p] = [ok |-> FALSE, err |-> AlreadySaved, val |-> {}]
                    /\ galleryImages' = galleryImages
                    /\ nextGalleryId' = nextGalleryId)]_vars

C2_Witness ==
    \E p \in Procs :
        /\ Returned(p, "saveToGallery")
        /\ res[p].err = AlreadySaved
        /\ \E g \in galleryImages :
            g.user_id = input[p].user_id /\ g.image_generation_id = input[p].image_generation_id

\* C3: for a completed generation, the step on which a downloadImage call returns grants
\* access (with the record's url and filename) exactly if the requester owns the
\* generation or some gallery entry referencing it is public at that moment; otherwise
\* the call fails with access denied.
C3_DownloadGrantedIff ==
    [][\A p \in Procs : \A g \in imageGenerations :
        (/\ pc[p] # "done" /\ pc'[p] = "done" /\ input'[p].op = "downloadImage"
         /\ g.id = input'[p].imageGenerationId /\ g.status = "completed")
        => LET allowed == \/ g.user_id = input'[p].userId
                          \/ \E e \in galleryImages : e.image_generation_id = g.id /\ e.is_public
           IN  /\ res'[p].ok <=> allowed
               /\ res'[p].ok => res'[p].val = {[downloadUrl |-> g.image_url, filename |-> g.image_filename]}
               /\ ~res'[p].ok => (res'[p].err = "Access denied" /\ res'[p].val = {})]_vars

C3_Witness ==
    \E p \in Procs : \E g \in imageGenerations :
        /\ Returned(p, "downloadImage") /\ g.id = input[p].imageGenerationId
        /\ g.user_id # input[p].userId
        /\ res[p].ok
        /\ \E e \in galleryImages : e.image_generation_id = g.id /\ ~e.is_public
        /\ \E e \in galleryImages : e.image_generation_id = g.id /\ e.is_public

\* C4: a generateImage call that returns a record returns it with status completed or
\* failed, never pending, with completed_at set, and equal to the stored record of that id.
C4_ReturnsTerminalRecord ==
    \A p \in Procs :
        (Returned(p, "generateImage") /\ res[p].ok)
        => /\ res[p].val # {}
           /\ \A r \in res[p].val :
                /\ r.status \in {"completed", "failed"}
                /\ r.completed_at # {}
                /\ r \in imageGenerations
                /\ \A g \in imageGenerations : g.id = r.id => g = r

C4_Witness ==
    \E p \in Procs, q \in Procs :
        /\ Returned(p, "generateImage") /\ res[p].ok
        /\ \E r \in res[p].val : r.status = "completed"
        /\ pc[q] = "gen_failed"

\* C5: a generation record is created pending; a pending record only stays as it is or
\* becomes completed or failed, keeping id, owner, prompt, filename and created_at; a
\* terminal record is never changed or removed by any step of any handler
\* (generateImage, saveToGallery, updateGalleryImage, deleteGalleryImage, shareImage,
\* downloadImage, the two listings).
C5_OneTerminalTransition ==
    [][/\ \A g \in imageGenerations :
            \E h \in imageGenerations' :
                /\ h.id = g.id
                /\ g.status # "pending" => h = g
                /\ g.status = "pending"
                    => /\ h.status \in {"pending", "completed", "failed"}
                       /\ h.user_id = g.user_id /\ h.prompt = g.prompt
                       /\ h.image_filename = g.image_filename /\ h.created_at = g.created_at
                       /\ h.status = "pending" => h = g
       /\ \A h \in imageGenerations' :
            (\A g \in imageGenerations : g.id # h.id) => h.status = "pending"
       /\ Cardinality(imageGenerations') = Cardinality({h.id : h \in imageGenerations'})]_vars

C5_Witness ==
    /\ \E g \in imageGenerations : g.status = "completed"
    /\ \E g \in imageGenerations : g.status = "failed"
    /\ galleryImages # {}
    /\ pc[1] = "done" /\ input[1].op = "updateGalleryImage" /\ res[1].ok

\* C6: every generation record inserted as pending eventually becomes completed or
\* failed, and every generateImage call that passed the user check eventually returns
\* a record.
C6_EventuallyTerminal ==
    /\ \A i \in GenIds :
        (\E g \in imageGenerations : g.id = i /\ g.status = "pending")
        ~> (\E g \in imageGenerations : g.id = i /\ g.status \in {"completed", "failed"})
    /\ \A p \in Procs :
        (pc[p] = "gen_insert") ~> (pc[p] = "done" /\ input[p].op = "generateImage" /\ res[p].ok)

C6_Witness ==
    /\ \E g \in imageGenerations : g.status = "failed"
    /\ \E g \in imageGenerations : g.status = "completed"
    /\ \A p \in Procs : Returned(p, "generateImage") /\ res[p].ok

\* C7: when the prompt contains "error" in any letter case and the user exists, the
\* call returns (no error) the record with status failed, an empty image_url and
\* completed_at set, and the stored record is that record.
C7_ProviderFailureIsData ==
    \A p \in Procs :
        (/\ Returned(p, "generateImage")
         /\ \E u \in users : u.id = input[p].user_id
         /\ includes(toLowerCase(input[p].prompt), <<"e", "r", "r", "o", "r">>))
        => /\ res[p].ok
           /\ res[p].val # {}
           /\ \A r \in res[p].val :
                /\ r.status = "failed" /\ r.image_url = <<>> /\ r.completed_at # {}
                /\ r.prompt = input[p].prompt /\ r.user_id = input[p].user_id
                /\ r \in imageGenerations

C7_Witness ==
    \E p \in Procs :
        /\ Returned(p, "generateImage")
        /\ input[p].prompt = <<"E", "r", "R", "o", "r", "!">>
        /\ res[p].ok
        /\ \E r \in res[p].val : r.status = "failed"

\* C8: a register call whose lookup finds a stored user with the same email or the same
\* username fails there with the email or the username conflict and leaves users
\* unchanged; an insert adds exactly one user, with the call's email and username, when no
\* stored user collides, and fails leaving users unchanged otherwise.
C8_RegisterConflict ==
    [][\A p \in Procs :
        LET collides(in) == \E x \in users : x.email = in.email \/ x.username = in.username
        IN  /\ (pc[p] = "idle" /\ pc'[p] # "idle" /\ input'[p].op = "register" /\ collides(input'[p]))
                => (/\ pc'[p] = "done" /\ ~res'[p].ok
                    /\ res'[p].err \in {"Email already exists", "Username already exists"}
                    /\ users' = users)
            /\ (pc[p] = "idle" /\ pc'[p] # "idle" /\ input'[p].op = "register" /\ ~collides(input'[p]))
                => (pc'[p] = "reg_insert" /\ users' = users)
            /\ (pc[p] = "reg_insert" /\ pc'[p] # "reg_insert" /\ collides(input[p]))
                => (pc'[p] = "done" /\ ~res'[p].ok /\ users' = users)
            /\ (pc[p] = "reg_insert" /\ pc'[p] # "reg_insert" /\ ~collides(input[p]))
                => (/\ pc'[p] = "done" /\ res'[p].ok
                    /\ \E u \in users' :
                        /\ u \notin users /\ users' = users \cup {u}
                        /\ u.email = input[p].email /\ u.username = input[p].username
                        /\ \E v \in res'[p].val :
                            v.user = [id |-> u.id, email |-> u.email, username |-> u.username,
                                      created_at |-> u.created_at])]_vars

C8_Witness ==
    \E p \in Procs : \E x \in users, y \in users :
        /\ Returned(p, "register") /\ ~res[p].ok
        /\ x # y /\ x.email = input[p].email /\ y.username = input[p].username
        /\ x.username # input[p].username

\* C9: no two stored users share an email, a username or an id, also when the lookup and
\* insert steps of concurrent register calls interleave.
C9_UsersUnique ==
    \A x \in users, y \in users :
        (x.email = y.email \/ x.username = y.username \/ x.id = y.id) => x = y

C9_Witness ==
    /\ Cardinality(users) = 2
    /\ \E p \in Procs :
        /\ Returned(p, "register")
        /\ res[p].err = "duplicate key value violates unique constraint"

\* C10: updateGalleryImage and deleteGalleryImage called with an id and user_id for
\* which no gallery record has both (another user's record, or no record of that id)
\* fail with the not-found error and leave every gallery record as it was.
C10_OwnerOnly ==
    [][\A p \in Procs :
        (/\ pc[p] = "idle" /\ pc'[p] # "idle"
         /\ input'[p].op \in {"updateGalleryImage", "deleteGalleryImage"}
         /\ ~\E g \in galleryImages : g.id = input'[p].id /\ g.user_id = input'[p].user_id)
        => (/\ pc'[p] = "done"
            /\ res'[p] = [ok |-> FALSE, err |-> NotFoundOrNotOwned, val |-> {}]
            /\ galleryImages' = galleryImages)]_vars

C10_Witness ==
    \E p \in Procs : \E g \in galleryImages :
        /\ pc[p] = "done" /\ input[p].op \in {"updateGalleryImage", "deleteGalleryImage"}
        /\ res[p].err = NotFoundOrNotOwned
        /\ g.id = input[p].id /\ g.user_id # input[p].user_id

\* C11: an updateGalleryImage call by the owner changes only the fields its input carries.
\* Its lookup step changes nothing in the store, and with neither the title key nor an
\* is_public value it returns the stored record there. Its update step keeps the title
\* when the input has no title key, keeps is_public when the input has no is_public
\* value, always keeps id, user_id, image_generation_id and created_at, returns the
\* record it wrote, and changes no other gallery record, no generation and no user.
C11_UpdateChangesOnlyProvided ==
    [][\A p \in Procs :
        /\ (pc[p] = "idle" /\ pc'[p] # "idle" /\ input'[p].op = "updateGalleryImage")
            => /\ galleryImages' = galleryImages
               /\ imageGenerations' = imageGenerations
               /\ users' = users
               /\ \A g \in galleryImages :
                    (/\ g.id = input'[p].id /\ g.user_id = input'[p].user_id
                     /\ "title" \notin DOMAIN input'[p] /\ input'[p].is_public = {})
                    => (pc'[p] = "done" /\ res'[p] = [ok |-> TRUE, err |-> "", val |-> {g}])
        /\ (pc[p] = "upd_write" /\ pc'[p] # "upd_write")
            => /\ imageGenerations' = imageGenerations
               /\ users' = users
               /\ Cardinality(galleryImages') = Cardinality(galleryImages)
               /\ \A g \in galleryImages :
                    IF g.id = input[p].id /\ g.user_id = input[p].user_id
                    THEN \E h \in galleryImages' :
                            /\ h.id = g.id /\ h.user_id = g.user_id
                            /\ h.image_generation_id = g.image_generation_id
                            /\ h.created_at = g.created_at
                            /\ "title" \notin DOMAIN input[p] => h.title = g.title
                            /\ input[p].is_public = {} => h.is_public = g.is_public
                            /\ res'[p] = [ok |-> TRUE, err |-> "", val |-> {h}]
                    ELSE g \in galleryImages']_vars

C11_Witness ==
    \E p \in Procs : \E h \in galleryImages :
        /\ Returned(p, "updateGalleryImage") /\ res[p].val = {h}
        /\ "title" \notin DOMAIN input[p] /\ input[p].is_public = {TRUE}
        /\ h.title = {"t"} /\ h.is_public
        /\ \E g \in galleryImages : g.id # h.id

\* C12: a saveToGallery call whose generation does not exist, is owned by another user, or
\* is pending or failed, returns from its first step with one and the same error record
\* in all three cases, and creates no gallery record.
C12_SaveRejectsUniformly ==
    [][\A p \in Procs :
        (/\ pc[p] = "idle" /\ pc'[p] # "idle" /\ input'[p].op = "saveToGallery"
         /\ \/ ~\E g \in imageGenerations : g.id = input'[p].image_generation_id
            \/ \E g \in imageGenerations :
                    g.id = input'[p].image_generation_id /\ g.user_id # input'[p].user_id
            \/ \E g \in imageGenerations :
                    g.id = input'[p].image_generation_id /\ g.status \in {"pending", "failed"})
        => (/\ pc'[p] = "done"
            /\ res'[p] = [ok |-> FALSE, val |-> {},
                          err |-> "Image generation not found, does not belong to user, or is not completed"]
            /\ galleryImages' = galleryImages
            /\ nextGalleryId' = nextGalleryId)]_vars

C12_Witness ==
    \E p \in Procs : \E g \in imageGenerations :
        /\ Returned(p, "saveToGallery") /\ ~res[p].ok
        /\ g.id = input[p].image_generation_id /\ g.user_id = input[p].user_id
        /\ g.status = "pending"
        /\ \E h \in imageGenerations : h.status = "completed"

\* C13: every gallery record references a generation that exists, has the gallery
\* record's user_id and is completed, in every state, with saveToGallery calls
\* interleaved with generateImage calls in flight.
C13_GalleryReferencesOwnCompleted ==
    \A e \in galleryImages :
        \E g \in imageGenerations :
            g.id = e.image_generation_id /\ g.user_id = e.user_id /\ g.status = "completed"

C13_Witness ==
    /\ galleryImages # {}
    /\ \E g \in imageGenerations : g.status = "pending"
    /\ \E p \in Procs : Returned(p, "saveToGallery") /\ res[p].ok

\* C14: the lookup step of a deleteGalleryImage call changes nothing; its delete step
\* removes the gallery record with the call's id and no other (also not another record
\* of the same user referencing the same generation), returns success, and leaves
\* every generation and every user as they were.
C14_DeleteRemovesOnlyThatRecord ==
    [][\A p \in Procs :
        /\ (pc[p] = "idle" /\ pc'[p] # "idle" /\ input'[p].op = "deleteGalleryImage")
            => (galleryImages' = galleryImages /\ imageGenerations' = imageGenerations /\ users' = users)
        /\ (pc[p] = "del_write" /\ pc'[p] # "del_write")
            => /\ galleryImages' = {g \in galleryImages : g.id # input[p].id}
               /\ imageGenerations' = imageGenerations
               /\ users' = users
               /\ pc'[p] = "done"
               /\ res'[p] = [ok |-> TRUE, err |-> "", val |-> {[success |-> TRUE]}]]_vars

\* a delete has returned success and another record of the same user, referencing the
\* same generation (ann's only completed one), is still stored
C14_Witness ==
    \E p \in Procs : \E e \in galleryImages :
        /\ Returned(p, "deleteGalleryImage") /\ res[p].ok
        /\ e.id # input[p].id /\ e.user_id = input[p].user_id
        /\ \A g \in imageGenerations : g.status = "completed" => g.id = e.image_generation_id
        /\ nextGalleryId = 3

\* C15: a shareImage call returns a share URL exactly if a gallery record with the
\* call's id exists, belongs to the call's user and is public; with no such record, or one
\* of another user, it fails with the one "not found or no permission" error; with an
\* owned private record it fails with "only public images can be shared". The URL is the
\* share base followed by the gallery image id and a token.
C15_ShareOnlyOwnedPublic ==
    [][\A p \in Procs :
        (pc[p] = "idle" /\ pc'[p] # "idle" /\ input'[p].op = "shareImage")
        => LET id == input'[p].gallery_image_id
               owned == {g \in galleryImages : g.id = id /\ g.user_id = input'[p].user_id}
           IN  /\ pc'[p] = "done"
               /\ res'[p].ok <=> \E g \in owned : g.is_public
               /\ owned = {}
                    => res'[p] = [ok |-> FALSE, val |-> {},
                                  err |-> "Gallery image not found or you do not have permission to share it"]
               /\ (owned # {} /\ \A g \in owned : ~g.is_public)
                    => res'[p] = [ok |-> FALSE, val |-> {}, err |-> "Only public images can be shared"]
               /\ res'[p].ok
                    => /\ res'[p].val # {}
                       /\ \A v \in res'[p].val :
                            /\ Len(v.shareUrl) = 4
                            /\ v.shareUrl[1] = "https://app.example.com/shared/image/"
                            /\ v.shareUrl[2] = id
                            /\ v.shareUrl[3] = "?token="]_vars

C15_Witness ==
    \E p \in Procs : \E g \in galleryImages, e \in galleryImages :
        /\ Returned(p, "shareImage") /\ res[p].ok
        /\ g.id = input[p].gallery_image_id /\ g.is_public
        /\ e.id # g.id /\ ~e.is_public

\* C16: a getUserImageGenerations call returns the records of image_generations with the
\* call's user_id (and the call's status, when it has one) that stand at positions
\* offset+1 .. offset+limit of those records ordered newest first, limit being 20 and
\* offset 0 when omitted: the result has min(limit, n - offset) records (none when
\* offset >= n), all matching, distinct, newest first, the i-th of them having at most
\* offset+i-1 matching records newer than it and at least offset+i as new or newer.
C16_ListGenerationsPage ==
    [][\A p \in Procs :
        (pc[p] = "idle" /\ pc'[p] # "idle" /\ input'[p].op = "getUserImageGenerations")
        => LET in == input'[p]
               matching == {g \in imageGenerations : g.user_id = in.user_id /\ (in.status # {} => g.status \in in.status)}
               limit == IF in.limit = {} THEN 20 ELSE CHOOSE l \in in.limit : TRUE
               offset == IF in.offset = {} THEN 0 ELSE CHOOSE o \in in.offset : TRUE
               n == Cardinality(matching)
               len == IF offset >= n THEN 0 ELSE IF n - offset < limit THEN n - offset ELSE limit
           IN  /\ pc'[p] = "done"
               /\ res'[p].ok
               /\ \E s \in res'[p].val :
                    /\ res'[p].val = {s}
                    /\ Len(s) = len
                    /\ \A i \in 1 .. Len(s) :
                        /\ s[i] \in matching
                        /\ Cardinality({g \in matching : g.created_at > s[i].created_at}) <= offset + i - 1
                        /\ Cardinality({g \in matching : g.created_at >= s[i].created_at}) >= offset + i
                    /\ \A i, j \in 1 .. Len(s) :
                        i < j => (s[i] # s[j] /\ s[i].created_at >= s[j].created_at)]_vars

C16_Witness ==
    \E p \in Procs : \E s \in res[p].val :
        /\ Returned(p, "getUserImageGenerations")
        /\ input[p].limit = {} /\ input[p].offset = {} /\ input[p].status = {"completed"}
        /\ Cardinality({g \in imageGenerations : g.user_id = input[p].user_id}) = 21
        /\ Len(s) = 20
        /\ s[1].created_at = 21 /\ s[20].created_at = 2

\* C17: a getUserGallery call follows the same contract over gallery_images: the records
\* with the call's user_id at positions offset+1 .. offset+limit, newest first, limit
\* being 20 and offset 0 when omitted.
C17_ListGalleryPage ==
    [][\A p \in Procs :
        (pc[p] = "idle" /\ pc'[p] # "idle" /\ input'[p].op = "getUserGallery")
        => LET in == input'[p]
               matching == {g \in galleryImages : g.user_id = in.user_id}
               limit == IF in.limit = {} THEN 20 ELSE CHOOSE l \in in.limit : TRUE
               offset == IF in.offset = {} THEN 0 ELSE CHOOSE o \in in.offset : TRUE
               n == Cardinality(matching)
               len == IF offset >= n THEN 0 ELSE IF n - offset < limit THEN n - offset ELSE limit
           IN  /\ pc'[p] = "done"
               /\ res'[p].ok
               /\ \E s \in res'[p].val :
                    /\ res'[p].val = {s}
                    /\ Len(s) = len
                    /\ \A i \in 1 .. Len(s) :
                        /\ s[i] \in matching
                        /\ Cardinality({g \in matching : g.created_at > s[i].created_at}) <= offset + i - 1
                        /\ Cardinality({g \in matching : g.created_at >= s[i].created_at}) >= offset + i
                    /\ \A i, j \in 1 .. Len(s) :
                        i < j => (s[i] # s[j] /\ s[i].created_at >= s[j].created_at)]_vars

\* C18: a login call fails with the one "Invalid email or password" error record both
\* when no stored user has exactly its email and when the user exists and the password
\* does not verify against the stored hash; it succeeds, returning that user's data,
\* only when the user exists and the password verifies; no step of it changes users.
C18_LoginFailsUniformly ==
    [][\A p \in Procs :
        LET invalid == [ok |-> FALSE, err |-> "Invalid email or password", val |-> {}]
        IN  /\ (pc[p] = "idle" /\ pc'[p] # "idle" /\ input'[p].op = "login")
                => /\ users' = users
                   /\ IF \E u \in users : u.email = input'[p].email
                      THEN pc'[p] = "login_compare"
                      ELSE pc'[p] = "done" /\ res'[p] = invalid
            /\ (pc[p] = "login_compare" /\ pc'[p] # "login_compare")
                => LET verifying == {u \in users :
                                        /\ u.email = input[p].email
                                        /\ \E salt \in Salts :
                                            u.password_hash = <<"$2a$10$", salt, input[p].password \o salt>>}
                   IN  /\ users' = users
                       /\ pc'[p] = "done"
                       /\ res'[p].ok <=> verifying # {}
                       /\ ~res'[p].ok => res'[p] = invalid
                       /\ res'[p].ok
                            => \E u \in verifying, v \in res'[p].val :
                                /\ res'[p].val = {v}
                                /\ v.user = [id |-> u.id, email |-> u.email, username |-> u.username,
                                             created_at |-> u.created_at]]_vars

\* one login failed on an email nobody has, another on a wrong password for an email
\* somebody has, and the two results are equal
C18_Witness ==
    \E p \in Procs, q \in Procs :
        /\ Returned(p, "login") /\ Returned(q, "login")
        /\ ~\E u \in users : u.email = input[p].email
        /\ \E u \in users : u.email = input[q].email /\ u.password_hash[1] = "$2a$10$"
        /\ input[q].password = "wrongpassword"
        /\ res[p] = res[q] /\ ~res[p].ok

\* C19: two successive successful login calls for the same user return different
\* tokens, each of which verifies and carries the user's id and email.
C19_TokensDiffer ==
    \A p \in Procs, q \in Procs :
        (/\ p # q /\ Returned(p, "login") /\ Returned(q, "login") /\ res[p].ok /\ res[q].ok
         /\ input[p].email = input[q].email)
        => \A v \in res[p].val, w \in res[q].val :
            /\ v.token # w.token
            /\ \A t \in {v.token, w.token} :
                /\ t.sig = <<"HS256", "default-secret-for-development", t.userId, t.email, t.iat, t.exp>>
                /\ now < t.exp
                /\ t.userId = v.user.id /\ t.email = v.user.email

\* C20: a generateImage call whose user_id no stored user has returns from its first
\* step with the "User not found" error: it never reaches the insert or the provider
\* call, and that step creates no generation record and draws no filename.
C20_UnknownUserRejectedBeforeWrite ==
    [][\A p \in Procs :
        (/\ pc[p] = "idle" /\ pc'[p] # "idle" /\ input'[p].op = "generateImage"
         /\ ~\E u \in users : u.id = input'[p].user_id)
        => (/\ pc'[p] = "done"
            /\ res'[p] = [ok |-> FALSE, err |-> "User not found", val |-> {}]
            /\ imageGenerations' = imageGenerations
            /\ nextGenId' = nextGenId
            /\ uuidCount' = uuidCount)]_vars

C20_Witness ==
    \E p \in Procs, q \in Procs :
        /\ Returned(p, "generateImage") /\ res[p].err = "User not found"
        /\ ~\E u \in users : u.id = input[p].user_id
        /\ pc[q] = "gen_provider"
        /\ \A g \in imageGenerations : g.user_id # input[p].user_id

\* C21: every stored gallery title is null or a string of at most 100 characters.
C21_TitleAtMost100 ==
    \A g \in galleryImages : \A t \in g.title : Len(t) <= 100

\* C22: in every state a pending generation record has an empty image_url and a null
\* completed_at, a completed one a non-empty image_url and completed_at set, a failed one
\* an empty image_url and completed_at set; and no step changes the image_filename of a
\* stored record, which is non-empty from the insert on.
C22_RecordShapeByStatus ==
    /\ [](\A g \in imageGenerations :
            /\ g.status \in {"pending", "completed", "failed"}
            /\ g.status = "pending" => (g.image_url = <<>> /\ g.completed_at = {})
            /\ g.status = "completed" => (g.image_url # <<>> /\ g.completed_at # {})
            /\ g.status = "failed" => (g.image_url = <<>> /\ g.completed_at # {})
            /\ g.image_filename # <<>>)
    /\ [][\A g \in imageGenerations : \A h \in imageGenerations' :
            h.id = g.id => h.image_filename = g.image_filename]_vars

C22_Witness ==
    /\ \E g \in imageGenerations : g.status = "pending"
    /\ \E g \in imageGenerations : g.status = "completed" /\ g.image_url # <<>>
    /\ \E p \in Procs : pc[p] = "gen_failed"

\* C23: the first step of a downloadImage call returns "Image not found" when no
\* generation has the id; returns "Image generation is not completed" when the
\* generation is pending or failed, for the owner and for any other requester alike;
\* and only for a completed generation grants access or goes on to the gallery lookup.
\* A downloadImage call that fails returns no url and no filename.
C23_DownloadCheckOrder ==
    [][\A p \in Procs :
        /\ (pc[p] = "idle" /\ pc'[p] # "idle" /\ input'[p].op = "downloadImage")
            => LET found == {g \in imageGenerations : g.id = input'[p].imageGenerationId}
               IN  /\ found = {}
                        => (pc'[p] = "done"
                            /\ res'[p] = [ok |-> FALSE, err |-> "Image not found", val |-> {}])
                   /\ \A g \in found :
                        /\ g.status \in {"pending", "failed"}
                            => (pc'[p] = "done"
                                /\ res'[p] = [ok |-> FALSE, err |-> "Image generation is not completed",
                                              val |-> {}])
                        /\ g.status = "completed"
                            => \/ pc'[p] = "done" /\ res'[p].ok /\ g.user_id = input'[p].userId
                               \/ pc'[p] = "dl_gallery" /\ g.user_id # input'[p].userId
        /\ (pc[p] # "done" /\ pc'[p] = "done" /\ input'[p].op = "downloadImage" /\ ~res'[p].ok)
            => res'[p].val = {}]_vars

C23_Witness ==
    \E p \in Procs : \E g \in imageGenerations :
        /\ Returned(p, "downloadImage") /\ res[p].err = "Image generation is not completed"
        /\ g.id = input[p].imageGenerationId /\ g.user_id = input[p].userId
        /\ g.status = "pending"

\* C24: on the update step of an updateGalleryImage call the stored title of the record
\* becomes null when the input has the title key with the value undefined, stays as it
\* was when the input has no title key, and becomes exactly the input's string, the
\* empty string included, when the key carries a string; the call returns that record.
C24_TitleAbsentUndefinedString ==
    [][\A p \in Procs :
        (pc[p] = "upd_write" /\ pc'[p] # "upd_write")
        => \A g \in galleryImages :
            (g.id = input[p].id /\ g.user_id = input[p].user_id)
            => \E h \in galleryImages' :
                /\ h.id = g.id
                /\ res'[p].val = {h}
                /\ IF "title" \notin DOMAIN input[p] THEN h.title = g.title
                   ELSE IF input[p].title = {} THEN h.title = {}
                   ELSE \A t \in input[p].title : h.title = {t}]_vars

C24_Witness ==
    \E p \in Procs : \E h \in galleryImages :
        /\ Returned(p, "updateGalleryImage") /\ res[p].val = {h}
        /\ "title" \in DOMAIN input[p] /\ input[p].title = {""}
        /\ h.title = {""}

\* C25: the insert step of a successful saveToGallery call adds exactly one gallery
\* record, with an id no stored record has, the call's user_id and image_generation_id,
\* the title exactly as given (null when omitted) and is_public exactly as given (false
\* when omitted); it returns that record and changes no generation and no other gallery
\* record.
C25_SaveCreatesRecordAsGiven ==
    [][\A p \in Procs :
        (pc[p] = "save_insert" /\ pc'[p] = "done" /\ res'[p].ok)
        => \E row \in galleryImages' :
            /\ res'[p].val = {row}
            /\ galleryImages' = galleryImages \cup {row}
            /\ \A g \in galleryImages : g.id # row.id
            /\ row.user_id = input'[p].user_id
            /\ row.image_generation_id = input'[p].image_generation_id
            /\ row.title = input'[p].title
            /\ row.is_public = (input'[p].is_public = {TRUE})
            /\ imageGenerations' = imageGenerations]_vars

\* C26: with generateImage calls interleaved, stored generation records have pairwise
\* distinct ids and filenames; the insert step of a call adds exactly one record, with an
\* id no stored record has and the call's user_id and prompt, whatever records are
\* stored already; the step on which a call writes the terminal state changes only the
\* record that call inserted and returns it.
C26_ConcurrentGenerationsIndependent ==
    /\ [](\A a \in imageGenerations, b \in imageGenerations :
            (a.id = b.id \/ a.image_filename = b.image_filename) => a = b)
    /\ [][\A p \in Procs :
            /\ (pc[p] = "gen_insert" /\ pc'[p] # "gen_insert")
                => \E r \in imageGenerations' :
                    /\ imageGenerations' = imageGenerations \cup {r}
                    /\ \A g \in imageGenerations : g.id # r.id
                    /\ r.user_id = input[p].user_id /\ r.prompt = input[p].prompt
                    /\ loc'[p].rec = {r}
            /\ (pc[p] \in {"gen_completed", "gen_failed"} /\ pc'[p] = "done")
                => \A own \in loc[p].rec :
                    /\ \A g \in imageGenerations : g.id # own.id => g \in imageGenerations'
                    /\ Cardinality(imageGenerations') = Cardinality(imageGenerations)
                    /\ \E h \in imageGenerations' :
                        /\ h.id = own.id /\ res'[p] = [ok |-> TRUE, err |-> "", val |-> {h}]
                        /\ h.user_id = input[p].user_id /\ h.prompt = input[p].prompt]_vars

\* two calls of the same user with the same prompt have both returned, each its own record
C26_Witness ==
    \E p \in Procs, q \in Procs : \E r \in res[p].val, t \in res[q].val :
        /\ p # q /\ Returned(p, "generateImage") /\ Returned(q, "generateImage")
        /\ input[p] = input[q]
        /\ r.id # t.id /\ r.image_filename # t.image_filename
        /\ r.status = "completed" /\ t.status = "completed"
        /\ Cardinality(imageGenerations) = 2

\* C27: a login call with the email and the password of a user that register stored (the
\* stored password_hash is the one register builds from that password) succeeds and
\* returns that user's id, email and username.
C27_RegisterThenLogin ==
    [][\A p \in Procs :
        (pc[p] = "login_compare" /\ pc'[p] = "done")
        => \A u \in users :
            (/\ u.email = input[p].email
             /\ \E salt \in Salts :
                    u.password_hash = <<"sha256", input[p].password \o salt, ":", salt>>)
            => /\ res'[p].ok
               /\ \E v \in res'[p].val :
                    /\ v.user.id = u.id
                    /\ v.user.email = u.email
                    /\ v.user.username = u.username]_vars

\* C28: an updateGalleryImage call that carries a field and returns without an error
\* returns a gallery record, also when a deleteGalleryImage call removed the record
\* between the update call's lookup and its update statement.
C28_UpdateReturnsRecordOrFails ==
    \A p \in Procs :
        (Returned(p, "updateGalleryImage") /\ res[p].ok)
        => \E h \in res[p].val : h.id = input[p].id /\ h.user_id = input[p].user_id

\* C29: every step of login, getUserImageGenerations, getUserGallery, downloadImage
\* and shareImage, succeeding or failing, leaves the stored users, image generations
\* and gallery images as they were; shareImage stores nothing about its token.
ReadOpNames == {"login", "getUserImageGenerations", "getUserGallery", "downloadImage", "shareImage"}

C29_ReadsLeaveStoreUnchanged ==
    [][\A p \in Procs :
        (/\ pc'[p] # pc[p]
         /\ \/ pc[p] = "idle" /\ input'[p].op \in ReadOpNames
            \/ pc[p] # "idle" /\ input[p].op \in ReadOpNames)
        => UNCHANGED <<users, imageGenerations, galleryImages>>]_vars

\* A shareImage call has returned a share URL for a stored public entry
C29_Witness ==
    \E p \in Procs :
        /\ Returned(p, "shareImage")
        /\ res[p].ok
        /\ \E g \in galleryImages : g.id = input[p].gallery_image_id /\ g.is_public

\* C30: deleteGalleryImage removes the entry for good: when it was the only entry of
\* its (user, generation) pair, none is left for the pair, and when it was the only
\* public entry of its generation, none is left for the generation. A saveToGallery
\* that finds no entry for its pair then goes on to insert and returns a new entry
\* whose id is above every id issued before, the deleted entry's included. A download
\* by a user who does not own the generation is denied exactly while no public entry
\* of the generation is stored.
C30_DeleteThenResave ==
    /\ [](\A e \in galleryImages : e.id < nextGalleryId)
    /\ [][/\ nextGalleryId' >= nextGalleryId
          /\ \A p \in Procs :
              /\ (pc[p] = "del_write" /\ pc'[p] = "done")
                 => \A e \in galleryImages :
                     (e.id = input[p].id /\ e.user_id = input[p].user_id)
                     => /\ res'[p].ok
                        /\ e \notin galleryImages'
                        /\ e.id < nextGalleryId'
                        /\ SaveExisting([user_id |-> e.user_id,
                                         image_generation_id |-> e.image_generation_id]) = {e}
                           => ~\E x \in galleryImages' :
                                 /\ x.user_id = e.user_id
                                 /\ x.image_generation_id = e.image_generation_id
                        /\ publicGalleryEntries(e.image_generation_id) = {e}
                           => ~\E x \in galleryImages' :
                                 x.image_generation_id = e.image_generation_id /\ x.is_public
              /\ (pc[p] = "save_dup" /\ pc'[p] # pc[p] /\ SaveExisting(input[p]) = {})
                 => pc'[p] = "save_insert"
              /\ (pc[p] = "save_insert" /\ pc'[p] = "done")
                 => /\ res'[p].ok
                    /\ \E h \in res'[p].val :
                         /\ h \in galleryImages' \ galleryImages
                         /\ h.id = nextGalleryId
                         /\ h.user_id = input[p].user_id
                         /\ h.image_generation_id = input[p].image_generation_id
              /\ (pc[p] = "dl_gallery" /\ pc'[p] = "done")
                 => (res'[p].ok <=> \E x \in galleryImages :
                         x.image_generation_id = input[p].imageGenerationId /\ x.is_public)]_vars

\* The only generation ever completed was saved as entry 1, entry 1 was deleted, and
\* a saveToGallery call has returned entry 2 for the same pair
C30_Witness ==
    \E p \in Procs : \E h \in galleryImages :
        /\ Returned(p, "saveToGallery")
        /\ res[p] = Ok({h})
        /\ galleryImages = {h}
        /\ h.id = 2
        /\ Cardinality({g \in imageGenerations : g.status = "completed"}) = 1
====
